---- MODULE Spec2Model ----
(***************************************************************************)
(* The akasha MCP gateway: a JSON-RPC engine exposing one tool, served     *)
(* over a WebSocket transport and, in two builds, over an SSE stream plus  *)
(* POST pair with the process-wide map `clients` from session id to the    *)
(* open stream.  The repository holds six builds of the gateway program;   *)
(* `build` says which one is running.                                      *)
(***************************************************************************)
EXTENDS Integers, Sequences, FiniteSets, TLC

VARIABLES build, clients, conns, nconn, sframes, wsock, wframes, reqs, nreq,
          fetches, finished, unhandled, terminated

vars == <<build, clients, conns, nconn, sframes, wsock, wframes, reqs, nreq,
          fetches, finished, unhandled, terminated>>

(* ------------------------------ bounds -------------------------------- *)
\* SSE streams ever opened
MaxConn == 2
\* WebSocket connections ever accepted
MaxWs == 2
\* connections of both kinds ever accepted
MaxLink == 2
\* inbound requests (WebSocket frames and POSTs) ever received
MaxReq == 2
\* keep-alive frames ever written
MaxTick == 1

Conn == 1..MaxConn
Sock == 1..MaxWs
Req == 1..MaxReq

(* ------------------------------ builds -------------------------------- *)
\* SSE + WebSocket, the stream record carries an `alive` flag
B_SERVER_SSE == "server.js:1-224"
\* WebSocket only
B_SERVER_WS == "server.js:225-428"
\* WebSocket only, the "lite" gateway
B_LITE == "part_000:1-110"
\* SSE + WebSocket, CORS and keep-alive
B_FINAL == "part_000:111-342"
\* WebSocket only
B_WS_V1 == "part_001:1-205"
\* WebSocket only, snake_case tool schema
B_WS_V2 == "part_001:206-363"

Builds == {B_SERVER_SSE, B_SERVER_WS, B_LITE, B_FINAL, B_WS_V1, B_WS_V2}

\* the builds whose HTTP server routes /sse
HasSse(b) == b \in {B_SERVER_SSE, B_FINAL}

(* ------------------------------ values -------------------------------- *)
\* query.cid values; NoCid is the "" that (query?.cid || "") yields
Cids == {"a"}
NoCid == ""

\* JSON-RPC ids; NoId is an absent id (undefined, dropped by JSON.stringify)
NoId == "undefined"
Ids == {NoId, "1", "2"}

NoMethod == "undefined"
toolsListAliases == {"tools/list", "listTools", "getTools", "get_tools", "list_tools"}
Methods == {"initialize", "notifications/initialized", "ping", "resources/list",
            "prompts/list", "bogus/method"} \cup toolsListAliases

\* params.name of a tools/call: params missing, name missing, another tool,
\* the registered tool
ParamNames == {"noparams", "noname", "other_tool", "qdrant_search"}

\* an optional JSON member: <<>> when absent (undefined), <<v>> when present
Absent == <<>>
\* the JSON value null
Null == "null"

\* params.arguments of a tools/call; NoArgs is a missing or empty arguments
ToolArgs(query, traditions, topK, lang) ==
    [query |-> query, traditions |-> traditions, topK |-> topK, lang |-> lang]
NoArgs == ToolArgs(Absent, Absent, Absent, Absent)

Msg(json, id, method, pname) ==
    [json |-> json, id |-> id, method |-> method, pname |-> pname, args |-> NoArgs]

\* a tools/call of the registered tool with arguments
Call(id, args) == [Msg("obj", id, "tools/call", "qdrant_search") EXCEPT !.args = args]

\* a body JSON.parse rejects
BadJson == Msg("bad", NoId, NoMethod, "noparams")
\* the JSON text null
JsonNull == Msg("null", NoId, NoMethod, "noparams")
\* no body received yet
NoMsg == Msg("pending", NoId, NoMethod, "noparams")

\* the bodies a client sends
Bodies ==
    {BadJson, JsonNull, Msg("obj", "1", NoMethod, "noparams")}
    \cup {Msg("obj", "1", m, "noparams") : m \in Methods}
    \cup {Msg("obj", "1", "tools/call", p) : p \in ParamNames \ {"qdrant_search"}}
    \cup {Call(NoId, NoArgs), Call("1", ToolArgs(<<"q">>, <<"zen">>, Absent, Absent)),
          Call("2", ToolArgs(<<"q">>, <<"zen">>, <<3>>, <<"en">>))}

\* the backend round trip: fetch rejects (a network failure), or resolves
\* with a response of some status and body text
NetFail == [net |-> FALSE, status |-> 0, body |-> ""]
\* no round trip has ended yet
NoReply == [net |-> FALSE, status |-> 0, body |-> "pending"]
Reply(status, body) == [net |-> TRUE, status |-> status, body |-> body]

\* body texts of the backend: a JSON document of snippets, a JSON error
\* document, a text that is no JSON
SnippetsText == "{snippets:[s1]}"
DetailText == "{detail:boom}"
PlainText == "oops"

\* outcomes of the backend round trip: success, success with a malformed
\* body, a non-success status with a text or a JSON body, a network failure
Outcomes ==
    {Reply(200, SnippetsText), Reply(200, PlainText),
     Reply(500, PlainText), Reply(500, DetailText), NetFail}

METHOD_NOT_FOUND == -32601
DEFAULT_TOPK == 6

\* result.content / result.isError of a tools/call; NoTool on other results
TextPart(text) == [type |-> "text", text |-> text]
JsonPart(data) == [type |-> "json", data |-> data]
ToolResult(content, isError) == [content |-> content, isError |-> isError]
NoTool == ToolResult(<<>>, FALSE)

PROTOCOL_VERSION == "2024-05-14"
SERVER_NAME == "akasha-mcp"
SERVER_VERSION == "0.1.0"

\* the result of initialize: protocolVersion, serverInfo (an optional
\* member), the keys of capabilities; NoInit on other results
InitResult(version, serverInfo, capabilities) ==
    [protocolVersion |-> version, serverInfo |-> serverInfo, capabilities |-> capabilities]
NoInit == InitResult("", Absent, {})

NoResp == [id |-> NoId, outcome |-> "none", code |-> 0, payload |-> "none", tool |-> NoTool,
           init |-> NoInit, tools |-> <<>>]
Result(id, payload) ==
    [id |-> id, outcome |-> "result", code |-> 0, payload |-> payload, tool |-> NoTool,
     init |-> NoInit, tools |-> <<>>]
Fault(id, code, message) ==
    [id |-> id, outcome |-> "error", code |-> code, payload |-> message, tool |-> NoTool,
     init |-> NoInit, tools |-> <<>>]
\* { jsonrpc, id, result: { protocolVersion, serverInfo, capabilities } }
InitReply(id, init) == [Result(id, "initialize") EXCEPT !.init = init]
\* { jsonrpc, id, result: { tools: [toolSpec] } }
ToolsReply(id, tools) == [Result(id, "tools") EXCEPT !.tools = tools]
\* { jsonrpc, id, result: { content, isError } }
ToolReply(id, t) == [Result(id, "toolResult") EXCEPT !.tool = t]

OpenFrame == [ev |-> "open", rid |-> 0, resp |-> NoResp]
\* the comment line ": ka" of the keep-alive timer
KeepAliveFrame == [ev |-> "ka", rid |-> 0, resp |-> NoResp]
MessageFrame(r, resp) == [ev |-> "message", rid |-> r, resp |-> resp]

(* ------------------------------ codec --------------------------------- *)
\* a faulty codec that reads a bad body as {} (C7 must tell it apart)
ParseLenient(raw) == [ok |-> TRUE, msg |-> IF raw.json = "bad" THEN Msg("obj", NoId, NoMethod, "noparams") ELSE raw]
\* JSON.parse(raw): throws on a bad body, else yields the value
Parse(raw) == [ok |-> raw.json # "bad", msg |-> raw]

(* ------------------------------ engine -------------------------------- *)
\* a faulty engine that answers with the id of the request received before
\* (C6 must tell it apart)
idOfLatest(msg) == IF nreq > 0 /\ reqs[nreq].msg.json = "obj" THEN reqs[nreq].msg.id ELSE NoId
\* const { id, method } = msg || {}  (req.id, reqMsg.id in the WebSocket-only builds)
idOf(msg) == IF msg.json = "obj" THEN msg.id ELSE NoId
methodOf(msg) == IF msg.json = "obj" THEN msg.method ELSE NoMethod

\* a faulty name check that lets a missing name through (C10 must tell it apart)
UnknownToolLax(msg) == msg.pname = "other_tool"
\* const { name } = msg.params || {};  name !== "qdrant_search"
UnknownTool(msg) == msg.pname # "qdrant_search"

\* reading msg.id / msg.method of the JSON value null throws a TypeError;
\* only B_FINAL reads msg || {}
DestructureThrows(b, msg) == b # B_FINAL /\ msg.json = "null"

\* if (!method) return;  only B_FINAL has the guard
NoMethodGuard(b, msg) == b = B_FINAL /\ methodOf(msg) = NoMethod

\* the capabilities object of the initialize result
InitPayload(b) ==
    IF b \in {B_SERVER_SSE, B_FINAL}
    THEN InitResult(PROTOCOL_VERSION, <<[name |-> SERVER_NAME, version |-> SERVER_VERSION]>>,
                    {"tools", "prompts", "resources"})
    ELSE IF b \in {B_SERVER_WS, B_WS_V2}
    THEN InitResult(PROTOCOL_VERSION, <<[name |-> SERVER_NAME, version |-> SERVER_VERSION]>>,
                    {"tools"})
    ELSE InitResult(PROTOCOL_VERSION, Absent, {})

\* the tool registry: the one descriptor, with the keys under which the
\* build publishes the input schema
toolSpec(b) ==
    [name |-> "qdrant_search",
     schema |-> IF b \in {B_SERVER_SSE, B_FINAL} THEN {"input_schema", "inputSchema"}
                ELSE IF b = B_WS_V2 THEN {"input_schema"}
                ELSE {"inputSchema"}]

\* the builds with the benign handlers (ping, resources/list, prompts/list)
HasBenign(b) == b \in {B_SERVER_SSE, B_SERVER_WS, B_FINAL, B_WS_V2}

\* the method names answered with the tool list
ListNames(b) ==
    IF b \in {B_SERVER_SSE, B_FINAL} THEN toolsListAliases
    ELSE IF b = B_WS_V2 THEN {"tools/list", "listTools", "getTools"}
    ELSE {"tools/list"}

Step(act, resp) == [act |-> act, resp |-> resp]

methodNotFoundUncorrelated(id) == Fault(NoId, METHOD_NOT_FOUND, "Method not found")
\* the default branch: { jsonrpc, id, error: { code: -32601, message } }
methodNotFound(id) == Fault(id, METHOD_NOT_FOUND, "Method not found")

\* the message handler up to its first suspension point: what it does with msg
handleRpcMessage(b, msg) ==
    IF DestructureThrows(b, msg) THEN Step("throw", NoResp)
    ELSE IF NoMethodGuard(b, msg) THEN Step("return", NoResp)
    ELSE LET id == idOf(msg)
             method == methodOf(msg)
         IN  IF method = "initialize" THEN Step("respond", InitReply(id, InitPayload(b)))
             ELSE IF method = "notifications/initialized" /\ b \in {B_SERVER_SSE, B_FINAL}
                  THEN Step("respond", Result(id, "ok"))
             ELSE IF method = "notifications/initialized" /\ b = B_WS_V2
                  THEN Step("return", NoResp)
             ELSE IF method = "ping" /\ HasBenign(b) THEN Step("respond", Result(id, "ok"))
             ELSE IF method = "resources/list" /\ HasBenign(b)
                  THEN Step("respond", Result(id, "resources"))
             ELSE IF method = "prompts/list" /\ HasBenign(b)
                  THEN Step("respond", Result(id, "prompts"))
             ELSE IF method \in ListNames(b)
                  THEN Step("respond", ToolsReply(id, <<toolSpec(b)>>))
             ELSE IF method = "tools/call" THEN
                  IF UnknownTool(msg)
                  THEN Step("respond", Fault(id, METHOD_NOT_FOUND, "Unknown tool"))
                  ELSE Step("fetch", NoResp)
             ELSE Step("respond", methodNotFound(id))

\* const body = { query, traditions, topK: args?.topK ?? 6, lang: args?.lang ?? null };
\* JSON.stringify(body) drops the members that are undefined
requestBody(args) ==
    [query |-> args.query,
     traditions |-> args.traditions,
     topK |-> IF args.topK = Absent THEN <<DEFAULT_TOPK>> ELSE args.topK,
     lang |-> IF args.lang = Absent THEN <<Null>> ELSE args.lang]
NoBody == [query |-> Absent, traditions |-> Absent, topK |-> Absent, lang |-> Absent]

\* r.ok: the status is in the range 200-299
ok(reply) == reply.status >= 200 /\ reply.status <= 299

\* r.json(): the body text parsed, or a rejection when it is no JSON
json(text) ==
    IF text = SnippetsText THEN [ok |-> TRUE, data |-> [snippets |-> <<"s1">>]]
    ELSE IF text = DetailText THEN [ok |-> TRUE, data |-> [detail |-> "boom"]]
    ELSE [ok |-> FALSE, data |-> [error |-> "FetchError: invalid json response body"]]

\* the catch branch: "Gateway error: " + String(e)
gatewayError(e) == ToolResult(<<TextPart("Gateway error: " \o e)>>, TRUE)

\* the !r.ok branch: `FastAPI ${r.status}: ${errTxt}`; the lite gateway
\* has no such branch
HasStatusCheck(b) == b # B_LITE
statusError(reply) ==
    ToolResult(<<TextPart("FastAPI " \o ToString(reply.status) \o ": " \o reply.body)>>, TRUE)

\* a faulty success branch that hands the body text on unparsed (C14 must
\* tell it apart)
invokeUnparsed(b, reply) ==
    IF ~reply.net THEN gatewayError("FetchError: request failed")
    ELSE IF HasStatusCheck(b) /\ ~ok(reply) THEN statusError(reply)
    ELSE ToolResult(<<JsonPart([text |-> reply.body])>>, FALSE)

\* the tools/call branch after the backend round trip: the ToolResult
invoke(b, reply) ==
    IF ~reply.net THEN gatewayError("FetchError: request failed")
    ELSE IF HasStatusCheck(b) /\ ~ok(reply) THEN statusError(reply)
    ELSE IF json(reply.body).ok
         THEN ToolResult(<<JsonPart(json(reply.body).data)>>, FALSE)
         ELSE gatewayError(json(reply.body).data.error)

\* how the branch reads the response body: r.text(), r.json(), or not at all
bodyRead(b, reply) ==
    IF ~reply.net THEN "none"
    ELSE IF HasStatusCheck(b) /\ ~ok(reply) THEN "text"
    ELSE "json"

\* the message handler after the backend round trip
\* a faulty engine that keeps state: it serves a call only while no other
\* response has been produced (C26 must tell it apart)
toolResponseByHistory(b, msg, outcome) ==
    IF finished = <<>> THEN ToolReply(idOf(msg), invoke(b, outcome))
    ELSE Fault(idOf(msg), -32002, "Server busy")
toolResponse(b, msg, outcome) == ToolReply(idOf(msg), invoke(b, outcome))

\* a faulty client that coalesces backend requests already issued (C16 must
\* tell it apart)
fetchCoalesced(n) == IF n > 0 THEN n ELSE n + 1
\* await fetch(`${FASTAPI_URL}/query`, ...): one more backend request
fetch(n) == n + 1

(* ------------------------------ state --------------------------------- *)
NoConn == [cid |-> NoCid, open |-> FALSE, keepAlive |-> FALSE, displaced |-> 0, status |-> 0]

FreeReq == [pc |-> "free", tr |-> "none", w |-> 0, cid |-> NoCid, ch |-> 0,
            rej |-> FALSE, msg |-> NoMsg, status |-> 0, trace |-> <<>>,
            sent |-> <<>>, reg |-> "na", repl |-> 0, body |-> NoBody,
            reply |-> NoReply, read |-> "none", at |-> 0]

Init ==
    /\ build \in Builds
    /\ clients = [x \in Cids |-> 0]
    /\ conns = [c \in Conn |-> NoConn]
    /\ nconn = 0
    /\ sframes = [c \in Conn |-> <<>>]
    /\ wsock = [w \in Sock |-> "none"]
    /\ wframes = [w \in Sock |-> <<>>]
    /\ reqs = [r \in Req |-> FreeReq]
    /\ nreq = 0
    /\ fetches = 0
    /\ finished = <<>>
    /\ unhandled = FALSE
    /\ terminated = FALSE

(* ------------------------- session directory -------------------------- *)
\* clients.set(cid, { res, ... })
clientsSet(x, c) == [clients EXCEPT ![x] = c]
\* clients.delete(cid)
clientsDelete(x) == [clients EXCEPT ![x] = 0]

\* a faulty cid check without the directory lookup (C5 must tell it apart)
InvalidCidNoLookup(x) == x = NoCid
\* POST /sse:  if (!cid || !ch)  /  if (!cid || !clients.has(cid))
InvalidCid(x) == x = NoCid \/ clients[x] = 0

(* ----------------------------- delivery ------------------------------- *)
\* the SSE responder: writes one message event on the stream it holds.
\* A write on a response whose socket is gone reaches nobody ("lost");
\* server.js returns early when it holds no stream ("skip").
SseResponder(ch, r, resp) ==
    IF ch = 0 THEN [frames |-> sframes, label |-> "skip"]
    ELSE IF conns[ch].open
         THEN [frames |-> [sframes EXCEPT ![ch] = Append(@, MessageFrame(r, resp))],
               label |-> "event"]
         ELSE [frames |-> sframes, label |-> "lost"]

\* a faulty responder that puts the newest message first (C18 must tell it
\* apart)
WsResponderNewestFirst(w, r, resp) ==
    IF wsock[w] = "open"
    THEN [frames |-> [wframes EXCEPT ![w] = <<MessageFrame(r, resp)>> \o @],
          label |-> "event"]
    ELSE [frames |-> wframes, label |-> "lost"]

\* a faulty delivery that falls back on another open socket when its own
\* is closed (C20 must tell it apart)
sendJSONAnywhere(w, r, resp) ==
    IF \E v \in Sock : wsock[v] = "open"
    THEN LET v == IF wsock[w] = "open" THEN w ELSE CHOOSE u \in Sock : wsock[u] = "open"
         IN  [frames |-> [wframes EXCEPT ![v] = Append(@, MessageFrame(r, resp))],
              label |-> IF v = w THEN "event" ELSE "lost"]
    ELSE [frames |-> wframes, label |-> "lost"]

\* the WebSocket responder: ws.send(JSON.stringify(obj)); a send on a
\* closed socket writes nothing
WsResponder(w, r, resp) ==
    IF wsock[w] = "open"
    THEN [frames |-> [wframes EXCEPT ![w] = Append(@, MessageFrame(r, resp))],
          label |-> "event"]
    ELSE [frames |-> wframes, label |-> "lost"]

(* ---------------------------- observation ----------------------------- *)
\* What the history fields of a request record (rej, reg, repl, trace, sent)
\* note down for the claims; the code keeps none of this.

\* is the POST's session id registered right now
Registered(x) == IF clients[x] # 0 THEN "yes" ELSE "no"

\* the stream opened last under x (0: none)
Latest(x) ==
    LET S == {c \in 1..nconn : conns[c].cid = x}
    IN  IF S = {} THEN 0 ELSE CHOOSE c \in S : \A d \in S : d <= c

\* the stream that replaced a live session under x and is still open (0: none)
Replacement(x) ==
    IF x = NoCid \/ Latest(x) = 0 THEN 0
    ELSE IF conns[Latest(x)].open /\ conns[Latest(x)].displaced # 0 THEN Latest(x) ELSE 0

(* ------------------------- counting for the bounds -------------------- *)
\* the keep-alive frames written so far, on all streams
RECURSIVE CountEv(_, _)
CountEv(s, ev) ==
    IF s = <<>> THEN 0 ELSE (IF Head(s).ev = ev THEN 1 ELSE 0) + CountEv(Tail(s), ev)
RECURSIVE SumTicks(_)
SumTicks(c) == IF c = 0 THEN 0 ELSE CountEv(sframes[c], "ka") + SumTicks(c - 1)
Ticks == SumTicks(MaxConn)

\* the connections accepted so far, streams and sockets
Links == nconn + Cardinality({w \in Sock : wsock[w] # "none"})

(* ------------------------------ actions ------------------------------- *)
\* a faulty opening that writes no open event (C24 must tell it apart)
writeNoOpen(c) == sframes
\* res.write(`event: open\ndata: {"ok":true}\n\n`) on the new stream c
writeOpen(c) == [sframes EXCEPT ![c] = Append(@, OpenFrame)]

\* GET /sse?cid=x. Without a cid: 400 "cid required", nothing else. With
\* one: 200, the open event, (part_000) the keep-alive timer, clients.set
SseOpen(x) ==
    /\ ~terminated
    /\ HasSse(build)
    /\ nconn < MaxConn
    /\ Links < MaxLink
    /\ LET c == nconn + 1 IN
       /\ nconn' = c
       /\ IF x = NoCid
          THEN /\ conns' = [conns EXCEPT ![c] = [NoConn EXCEPT !.status = 400]]
               /\ UNCHANGED <<sframes, clients>>
          ELSE /\ conns' = [conns EXCEPT ![c] = [cid |-> x, open |-> TRUE,
                                                 keepAlive |-> (build = B_FINAL),
                                                 displaced |-> clients[x],
                                                 status |-> 200]]
               /\ sframes' = writeOpen(c)
               /\ clients' = clientsSet(x, c)
    /\ UNCHANGED <<build, wsock, wframes, reqs, nreq, fetches, finished, unhandled,
                   terminated>>

\* req.on("close") of an SSE stream: clearInterval, clients.delete(cid)
SseClose(c) ==
    /\ ~terminated
    /\ conns[c].open
    /\ conns' = [conns EXCEPT ![c].open = FALSE, ![c].keepAlive = FALSE]
    /\ clients' = clientsDelete(conns[c].cid)
    /\ UNCHANGED <<build, nconn, sframes, wsock, wframes, reqs, nreq, fetches,
                   finished, unhandled, terminated>>

\* POST /sse?cid=x, the request line and headers: the cid check; part_000
\* resolves the stream here (const ch = clients.get(cid))
PostArrive(x) ==
    /\ ~terminated
    /\ HasSse(build)
    /\ nreq < MaxReq
    /\ LET r == nreq + 1
           base == [FreeReq EXCEPT !.tr = "sse", !.cid = x,
                                   !.rej = (x = NoCid \/ clients[x] = 0),
                                   !.repl = Replacement(x),
                                   !.at = IF x = NoCid THEN 0 ELSE clients[x]]
       IN  /\ nreq' = r
           /\ IF InvalidCid(x)
              THEN reqs' = [reqs EXCEPT ![r] = [base EXCEPT !.pc = "done", !.status = 400,
                                                            !.trace = <<"err">>]]
              ELSE reqs' = [reqs EXCEPT ![r] = [base EXCEPT !.pc = "body",
                                 !.ch = IF build = B_FINAL THEN clients[x] ELSE 0]]
    /\ UNCHANGED <<build, clients, conns, nconn, sframes, wsock, wframes, fetches,
                   finished, unhandled, terminated>>

\* POST /sse, req.on("end"): parse, run the engine, acknowledge
PostEnd(r, raw) ==
    /\ ~terminated
    /\ reqs[r].pc = "body"
    /\ LET p == Parse(raw)
           ch == IF build = B_SERVER_SSE THEN clients[reqs[r].cid] ELSE reqs[r].ch
           h == handleRpcMessage(build, p.msg)
           d == SseResponder(ch, r, h.resp)
           q == [reqs[r] EXCEPT !.msg = raw, !.ch = ch]
       IN  IF ~p.ok
           THEN /\ reqs' = [reqs EXCEPT ![r] = [q EXCEPT !.ch = reqs[r].ch, !.pc = "done",
                                   !.status = 400, !.trace = Append(@, "err")]]
                /\ UNCHANGED <<sframes, fetches, finished>>
           ELSE CASE h.act = "throw" ->
                     /\ reqs' = [reqs EXCEPT ![r] = [q EXCEPT !.pc = "done", !.status = 400,
                                        !.trace = @ \o <<"engine", "err">>]]
                     /\ UNCHANGED <<sframes, fetches, finished>>
                  [] h.act = "return" ->
                     /\ reqs' = [reqs EXCEPT ![r] = [q EXCEPT !.pc = "done", !.status = 200,
                                        !.trace = @ \o <<"engine", "ack">>]]
                     /\ UNCHANGED <<sframes, fetches, finished>>
                  [] h.act = "respond" ->
                     /\ reqs' = [reqs EXCEPT ![r] = [q EXCEPT !.pc = "done", !.status = 200,
                                        !.sent = Append(@, h.resp),
                                        !.reg = Registered(reqs[r].cid),
                                        !.trace = @ \o <<"engine", d.label, "ack">>]]
                     /\ sframes' = d.frames
                     /\ finished' = Append(finished, r)
                     /\ UNCHANGED fetches
                  [] h.act = "fetch" ->
                     /\ reqs' = [reqs EXCEPT ![r] = [q EXCEPT !.pc = "fetch",
                                        !.body = requestBody(p.msg.args),
                                        !.trace = @ \o <<"engine", "fetch">>]]
                     /\ fetches' = fetch(fetches)
                     /\ UNCHANGED <<sframes, finished>>
    /\ UNCHANGED <<build, clients, conns, nconn, wsock, wframes, nreq, unhandled, terminated>>

\* the upgrade to /mcp: wss.on("connection"); sockets are numbered in the
\* order they connect
WsConnect(w) ==
    /\ ~terminated
    /\ wsock[w] = "none"
    /\ Links < MaxLink
    /\ \A v \in Sock : v < w => wsock[v] # "none"
    /\ wsock' = [wsock EXCEPT ![w] = "open"]
    /\ UNCHANGED <<build, clients, conns, nconn, sframes, wframes, reqs, nreq, fetches,
                   finished, unhandled, terminated>>

\* a faulty close handler that clears the directory of streams (C27 must
\* tell it apart)
WsCloseDropsSessions(w) ==
    /\ ~terminated
    /\ wsock[w] = "open"
    /\ wsock' = [wsock EXCEPT ![w] = "closed"]
    /\ clients' = [x \in Cids |-> 0]
    /\ UNCHANGED <<build, conns, nconn, sframes, wframes, reqs, nreq, fetches,
                   finished, unhandled, terminated>>

\* the peer closes the WebSocket
WsClose(w) ==
    /\ ~terminated
    /\ wsock[w] = "open"
    /\ wsock' = [wsock EXCEPT ![w] = "closed"]
    /\ UNCHANGED <<build, clients, conns, nconn, sframes, wframes, reqs, nreq, fetches,
                   finished, unhandled, terminated>>

\* ws.on("message"): parse, run the engine. An exception of the engine
\* rejects the promise of the async listener, which nothing handles: Node
\* 15 and later end the process on it, Node 14 only warns. Such a frame
\* leaves no request behind, only the rejection.
WsMessage(w, raw) ==
    /\ ~terminated
    /\ wsock[w] = "open"
    /\ LET r == nreq + 1
           p == Parse(raw)
           h == handleRpcMessage(build, p.msg)
           d == WsResponder(w, r, h.resp)
           q == [FreeReq EXCEPT !.tr = "ws", !.w = w, !.msg = raw, !.pc = "done"]
       IN  IF p.ok /\ h.act = "throw"
           THEN /\ unhandled' = TRUE
                /\ terminated' \in BOOLEAN
                /\ UNCHANGED <<reqs, nreq, wframes, fetches, finished>>
           ELSE /\ nreq < MaxReq
                /\ nreq' = r
                /\ UNCHANGED <<unhandled, terminated>>
                /\ IF ~p.ok
                   THEN /\ reqs' = [reqs EXCEPT ![r] = q]
                        /\ UNCHANGED <<wframes, fetches, finished>>
                   ELSE CASE h.act = "return" ->
                             /\ reqs' = [reqs EXCEPT ![r] = [q EXCEPT !.trace = <<"engine">>]]
                             /\ UNCHANGED <<wframes, fetches, finished>>
                          [] h.act = "respond" ->
                             /\ reqs' = [reqs EXCEPT ![r] = [q EXCEPT !.sent = <<h.resp>>,
                                                !.trace = <<"engine", d.label>>]]
                             /\ wframes' = d.frames
                             /\ finished' = Append(finished, r)
                             /\ UNCHANGED fetches
                          [] h.act = "fetch" ->
                             /\ reqs' = [reqs EXCEPT ![r] = [q EXCEPT !.pc = "fetch",
                                                !.body = requestBody(p.msg.args),
                                                !.trace = <<"engine", "fetch">>]]
                             /\ fetches' = fetch(fetches)
                             /\ UNCHANGED <<wframes, finished>>
    /\ UNCHANGED <<build, clients, conns, nconn, sframes, wsock>>

\* the backend round trip of a tools/call ends with outcome o: the engine
\* responds, and the POST handler then acknowledges
BackendDone(r, o) ==
    /\ ~terminated
    /\ reqs[r].pc = "fetch"
    /\ LET resp == toolResponse(build, reqs[r].msg, o)
           ds == SseResponder(reqs[r].ch, r, resp)
           dw == WsResponder(reqs[r].w, r, resp)
       IN  IF reqs[r].tr = "sse"
           THEN /\ reqs' = [reqs EXCEPT ![r] = [@ EXCEPT !.pc = "done", !.status = 200,
                                   !.reply = o, !.read = bodyRead(build, o),
                                   !.sent = Append(@, resp),
                                   !.reg = Registered(reqs[r].cid),
                                   !.trace = @ \o <<"fetched", ds.label, "ack">>]]
                /\ sframes' = ds.frames
                /\ UNCHANGED wframes
           ELSE /\ reqs' = [reqs EXCEPT ![r] = [@ EXCEPT !.pc = "done",
                                   !.reply = o, !.read = bodyRead(build, o),
                                   !.sent = Append(@, resp),
                                   !.trace = @ \o <<"fetched", dw.label>>]]
                /\ wframes' = dw.frames
                /\ UNCHANGED sframes
    /\ finished' = Append(finished, r)
    /\ UNCHANGED <<build, clients, conns, nconn, wsock, nreq, fetches, unhandled, terminated>>

\* the keep-alive timer of stream c fires: res.write(": ka"); a write on a
\* response whose socket is gone reaches nobody
KeepAliveTick(c) ==
    /\ ~terminated
    /\ conns[c].keepAlive
    /\ Ticks < MaxTick
    /\ sframes' = IF conns[c].open THEN [sframes EXCEPT ![c] = Append(@, KeepAliveFrame)]
                  ELSE sframes
    /\ UNCHANGED <<build, clients, conns, nconn, wsock, wframes, reqs, nreq, fetches,
                   finished, unhandled, terminated>>

Next ==
    \/ \E x \in Cids \cup {NoCid} : SseOpen(x)
    \/ \E c \in Conn : SseClose(c)
    \/ \E x \in Cids \cup {NoCid} : PostArrive(x)
    \/ \E r \in Req, raw \in Bodies : PostEnd(r, raw)
    \/ \E w \in Sock : WsConnect(w)
    \/ \E w \in Sock : WsClose(w)
    \/ \E w \in Sock, raw \in Bodies : WsMessage(w, raw)
    \/ \E r \in Req, o \in Outcomes : BackendDone(r, o)
    \/ \E c \in Conn : KeepAliveTick(c)

Spec == Init /\ [][Next]_vars

\* Scheduling: a client that started a POST finishes sending its body, and
\* the backend ends every round trip but that of the first request, which
\* may hang for ever (the gateway puts no timeout on fetch).
FairSpec ==
    /\ Spec
    /\ \A r \in Req : WF_vars(\E raw \in Bodies : PostEnd(r, raw))
    /\ \A r \in Req \ {1} : WF_vars(\E o \in Outcomes : BackendDone(r, o))

(* ------------------------- reading the history ------------------------ *)
Range(s) == {s[i] : i \in DOMAIN s}

\* the message events written for request r, on any stream or socket
FramesFor(r) ==
    {f \in UNION ({Range(sframes[c]) : c \in Conn} \cup {Range(wframes[w]) : w \in Sock}) :
        f.ev = "message" /\ f.rid = r}

\* the message events written for request r on SSE stream c
StreamFramesFor(c, r) == {f \in Range(sframes[c]) : f.ev = "message" /\ f.rid = r}

Has(r, label) == label \in Range(reqs[r].trace)

\* where label first stands in the trace of r (0: nowhere)
Pos(r, label) ==
    IF Has(r, label)
    THEN CHOOSE i \in DOMAIN reqs[r].trace :
             /\ reqs[r].trace[i] = label
             /\ \A j \in DOMAIN reqs[r].trace : reqs[r].trace[j] = label => i <= j
    ELSE 0

\* r is a POST turned away on its cid, before any body was read
TurnedAway(r) == reqs[r].tr = "sse" /\ reqs[r].pc = "done" /\ reqs[r].msg = NoMsg

\* r is a tools/call naming the registered tool
IsToolCall(r) ==
    /\ reqs[r].msg.json = "obj"
    /\ reqs[r].msg.method = "tools/call"
    /\ reqs[r].msg.pname = "qdrant_search"

\* the backend round trip of r has ended
Completed(r) == IsToolCall(r) /\ Has(r, "fetched")

\* the round trip failed: no response, a non-success status, a body that is no JSON
NetworkFailure(reply) == ~reply.net
NonSuccess(reply) == reply.net /\ (reply.status < 200 \/ reply.status > 299)
Malformed(reply) == reply.net /\ reply.body \notin {SnippetsText, DetailText}

\* the request numbers of the message events in frames, in order
MessageRids(frames) ==
    LET m == SelectSeq(frames, LAMBDA f : f.ev = "message")
    IN  [i \in 1..Len(m) |-> m[i].rid]

\* the requests of S in the order their responses became ready
FinishedOn(S) == SelectSeq(finished, LAMBDA r : r \in S)

\* the requests whose response was written to socket w, to stream c
WrittenToSocket(w) == {r \in Req : reqs[r].tr = "ws" /\ reqs[r].w = w /\ Has(r, "event")}
WrittenToStream(c) == {r \in Req : reqs[r].tr = "sse" /\ reqs[r].ch = c /\ Has(r, "event")}

\* how often label stands in the trace of r
RECURSIVE CountIn(_, _)
CountIn(s, label) ==
    IF s = <<>> THEN 0 ELSE (IF Head(s) = label THEN 1 ELSE 0) + CountIn(Tail(s), label)

\* t occurs in s
Contains(s, t) == \E i \in 1..(Len(s) - Len(t) + 1) : SubSeq(s, i, i + Len(t) - 1) = t

(* ------------------------------ claims -------------------------------- *)

\* C1: a session id is registered in the directory if and only if a stream
\* opened under that id is currently open, whatever the interleaving of
\* opens and closes (an open reusing a live id included).
C1_DirectoryIffOpen ==
    \A x \in Cids :
        (clients[x] # 0) <=> (\E c \in Conn : conns[c].open /\ conns[c].cid = x)

\* C2: for a POST with a live session and a valid message, the {ok:true}
\* acknowledgement is issued before the message event is written, and
\* without waiting for the backend call of a tools/call.
C2_AckBeforeEvent ==
    \A r \in Req :
        reqs[r].tr = "sse" =>
            /\ Has(r, "event") => (Has(r, "ack") /\ Pos(r, "ack") < Pos(r, "event"))
            /\ reqs[r].pc = "fetch" => reqs[r].status = 200

\* C3: when the session of a POST is no longer in the directory at the
\* moment its response is delivered, no message event is written, the
\* POST is answered with an error status, and the backend call still ran.
C3_GoneSessionFailsPost ==
    \A r \in Req :
        (reqs[r].tr = "sse" /\ reqs[r].reg = "no") =>
            /\ FramesFor(r) = {}
            /\ reqs[r].status >= 400
            /\ Has(r, "fetch") => Has(r, "fetched")

\* C4: after a stream open replaced a live session under an id, every POST
\* arriving with that id has its response written to the new stream and
\* never to the displaced one.
C4_PostGoesToReplacement ==
    \A r \in Req :
        (reqs[r].tr = "sse" /\ reqs[r].repl # 0) =>
            /\ ~TurnedAway(r)
            /\ \A c \in Conn : c # reqs[r].repl => StreamFramesFor(c, r) = {}

\* C5: a POST whose session id is absent or not registered is answered
\* with an HTTP error status; the engine is not invoked, no backend call is
\* issued, no event is written to any stream, the directory is unchanged.
C5_InvalidCidRejected ==
    [][\A r \in Req :
          (reqs'[r].tr = "sse" /\ reqs'[r].rej) =>
              /\ reqs'[r].pc = "done"
              /\ reqs'[r].status = 400
              /\ reqs'[r].trace = <<"err">>
              /\ reqs'[r].sent = <<>>
              /\ FramesFor(r)' = {}
              /\ reqs[r].pc = "free" => UNCHANGED <<clients, sframes, wframes, fetches>>]_vars

\* C5 witness: a POST with an unregistered id and a POST with no id were
\* both turned away while another session was live.
C5_Witness ==
    /\ \E r \in Req : reqs[r].rej /\ reqs[r].cid \in Cids /\ reqs[r].status = 400
    /\ \E r \in Req : reqs[r].rej /\ reqs[r].cid = NoCid /\ reqs[r].status = 400
    /\ \E c \in Conn : conns[c].open

\* C6: every response delivered carries the id of the message that
\* triggered it (absent when the message had none), on every branch and
\* when concurrent tools/call requests complete in any order.
C6_ResponseCarriesRequestId ==
    \A r \in Req :
        /\ \A i \in DOMAIN reqs[r].sent : reqs[r].sent[i].id = reqs[r].msg.id
        /\ \A f \in FramesFor(r) : f.resp.id = reqs[r].msg.id

\* C6 witness: two tools/call requests with different ids on one socket
\* were answered in the reverse of their arrival order.
C6_Witness ==
    \E w \in Sock :
        /\ Len(wframes[w]) = 2
        /\ wframes[w][1].rid = 2 /\ wframes[w][2].rid = 1
        /\ reqs[1].tr = "ws" /\ reqs[2].tr = "ws"
        /\ Has(1, "fetched") /\ Has(2, "fetched")
        /\ reqs[1].msg.id # reqs[2].msg.id
        /\ reqs[1].msg.id # NoId

\* C7: for a body that cannot be parsed, on either transport, nothing is
\* written to the socket, no message event is written to a stream, the
\* engine is not invoked and no protocol message is produced.
C7_BadJsonIsSilent ==
    \A r \in Req :
        reqs[r].msg = BadJson =>
            /\ FramesFor(r) = {}
            /\ reqs[r].sent = <<>>
            /\ ~Has(r, "engine") /\ ~Has(r, "fetch")
            /\ ~Has(r, "event") /\ ~Has(r, "lost") /\ ~Has(r, "skip")

\* C7 witness: an unparseable frame arrived on a socket and an unparseable
\* body on a POST of a live session.
C7_Witness ==
    /\ \E r \in Req : reqs[r].msg = BadJson /\ reqs[r].tr = "ws"
    /\ \E r \in Req : reqs[r].msg = BadJson /\ reqs[r].tr = "sse" /\ reqs[r].pc = "done"

\* C8: a decoded message with no method is dropped on both transports:
\* the delivery sink is never invoked for it, no result and no fault.
C8_NoMethodIsDropped ==
    \A r \in Req :
        (reqs[r].msg.json = "obj" /\ reqs[r].msg.method = NoMethod) =>
            /\ reqs[r].sent = <<>>
            /\ FramesFor(r) = {}

\* C9: no inbound message, close or backend failure lets an exception
\* escape a handler unhandled or ends the gateway process.
C9_NothingIsFatal == ~unhandled /\ ~terminated

\* C10: a tools/call whose params.name is not the registered tool name
\* (params or name missing included) is answered with the method-not-found
\* Fault, never a ToolResult, and issues no backend request.
C10_UnknownToolIsFault ==
    \A r \in Req :
        (reqs[r].msg.json = "obj" /\ reqs[r].msg.method = "tools/call"
             /\ reqs[r].msg.pname # "qdrant_search") =>
            /\ Len(reqs[r].sent) = 1
            /\ reqs[r].sent[1].outcome = "error"
            /\ reqs[r].sent[1].code = METHOD_NOT_FOUND
            /\ \A f \in FramesFor(r) : f.resp.outcome = "error" /\ f.resp.code = METHOD_NOT_FOUND
            /\ ~Has(r, "fetch") /\ ~Has(r, "fetched")
            /\ reqs[r].pc = "done"

\* C10 witness: a tools/call with no params or no name was answered with a
\* fault that reached the peer, while another tools/call went to the backend.
C10_Witness ==
    \E r \in Req :
        /\ reqs[r].msg.method = "tools/call"
        /\ reqs[r].msg.pname \in {"noparams", "noname"}
        /\ FramesFor(r) # {}
        /\ fetches > 0

\* C11: every tools/call naming the registered tool, whatever the backend
\* outcome and whatever the arguments, raises no exception and is answered
\* with a protocol-successful Result carrying a ToolResult, never a Fault;
\* isError is true in every failure outcome.
C11_ToolCallNeverFaults ==
    \A r \in Req :
        Completed(r) =>
            /\ ~Has(r, "throw") /\ ~Has(r, "err")
            /\ Len(reqs[r].sent) = 1
            /\ reqs[r].sent[1].outcome = "result"
            /\ Len(reqs[r].sent[1].tool.content) = 1
            /\ (NetworkFailure(reqs[r].reply) \/ NonSuccess(reqs[r].reply)
                    \/ Malformed(reqs[r].reply)) => reqs[r].sent[1].tool.isError

\* C12: for every non-success backend status s with response body b, the
\* ToolResult has isError true and exactly one text part whose text is
\* exactly "<s>: <b>" (status 500 with body "oops" gives "500: oops").
C12_StatusTextIsExact ==
    \A r \in Req :
        (Completed(r) /\ NonSuccess(reqs[r].reply)) =>
            /\ Len(reqs[r].sent) = 1
            /\ reqs[r].sent[1].tool =
                   ToolResult(<<TextPart(ToString(reqs[r].reply.status) \o ": "
                                            \o reqs[r].reply.body)>>, TRUE)

\* C13: for every non-success backend status, the ToolResult has isError
\* true and its single text part contains the status code; the backend body
\* is read as text and never parsed as JSON.
C13_StatusIsReported ==
    \A r \in Req :
        (Completed(r) /\ NonSuccess(reqs[r].reply)) =>
            /\ Len(reqs[r].sent) = 1
            /\ reqs[r].sent[1].tool.isError
            /\ Len(reqs[r].sent[1].tool.content) = 1
            /\ reqs[r].sent[1].tool.content[1].type = "text"
            /\ Contains(reqs[r].sent[1].tool.content[1].text, ToString(reqs[r].reply.status))
            /\ reqs[r].read = "text"

\* C14: for every successful backend response, the ToolResult has isError
\* false and its content is exactly one JSON-kind part whose data is the
\* backend's parsed body, unchanged; that is what the peer receives.
C14_SuccessCarriesParsedBody ==
    \A r \in Req :
        (Completed(r) /\ reqs[r].reply = Reply(200, SnippetsText)) =>
            /\ Len(reqs[r].sent) = 1
            /\ reqs[r].sent[1].outcome = "result"
            /\ reqs[r].sent[1].tool =
                   ToolResult(<<JsonPart([snippets |-> <<"s1">>])>>, FALSE)
            /\ \A f \in FramesFor(r) : f.resp = reqs[r].sent[1]

\* C14 witness: a successful backend response was delivered to a socket
\* peer and another one to a stream.
C14_Witness ==
    /\ \E r \in Req : reqs[r].tr = "ws" /\ reqs[r].reply = Reply(200, SnippetsText)
                          /\ FramesFor(r) # {}
    /\ \E r \in Req : reqs[r].tr = "sse" /\ reqs[r].reply = Reply(200, SnippetsText)
                          /\ FramesFor(r) # {}

\* C15: the request body sent to the backend carries query and traditions
\* exactly as supplied, topK equal to the supplied value or 6 when none is
\* supplied, and lang equal to the supplied value or absent from the body
\* when none is supplied.
C15_BackendBodyFromArgs ==
    \A r \in Req :
        (IsToolCall(r) /\ Has(r, "fetch")) =>
            /\ reqs[r].body.query = reqs[r].msg.args.query
            /\ reqs[r].body.traditions = reqs[r].msg.args.traditions
            /\ reqs[r].body.topK =
                   (IF reqs[r].msg.args.topK = Absent THEN <<6>> ELSE reqs[r].msg.args.topK)
            /\ reqs[r].body.lang = reqs[r].msg.args.lang

\* C16: each tools/call naming the registered tool issues exactly one
\* backend request, whatever its outcome (no retry), two identical calls
\* issue two (no caching or coalescing), every other message issues none.
C16_OneBackendRequestPerCall ==
    /\ fetches = Cardinality({r \in Req : IsToolCall(r) /\ Has(r, "engine")})
    /\ \A r \in Req :
           CountIn(reqs[r].trace, "fetch") =
               (IF IsToolCall(r) /\ Has(r, "engine") THEN 1 ELSE 0)

\* C16 witness: two identical tools/call requests both ended, the first
\* one on a failure of the backend.
C16_Witness ==
    /\ IsToolCall(1) /\ reqs[2].msg = reqs[1].msg
    /\ reqs[1].pc = "done" /\ reqs[2].pc = "done"
    /\ NetworkFailure(reqs[1].reply) \/ NonSuccess(reqs[1].reply)
    /\ fetches = 2

\* C17: with one tools/call whose backend call never completes, every
\* request arriving afterwards, on another connection or session or (when
\* it needs no backend call) on the same one, is still eventually answered;
\* only the hung request's response and acknowledgement are withheld.
C17_HungCallStallsOnlyItself ==
    \A r \in Req \ {1} :
        (reqs[1].pc = "fetch" /\ reqs[r].pc \in {"body", "fetch"}) ~> (reqs[r].pc = "done")

\* C18: on one connection the responses are delivered in the order in which
\* their requests finished processing (a request without backend call
\* overtakes an earlier tools/call still awaiting the backend; concurrent
\* calls are answered as their backend calls complete); a response whose
\* connection is open when it is ready is written at once, exactly once.
C18_DeliveredInCompletionOrder ==
    /\ \A w \in Sock : MessageRids(wframes[w]) = FinishedOn(WrittenToSocket(w))
    /\ \A c \in Conn : MessageRids(sframes[c]) = FinishedOn(WrittenToStream(c))
    /\ \A r \in Req :
           /\ reqs[r].sent # <<>> => (Has(r, "event") \/ Has(r, "lost") \/ Has(r, "skip"))
           /\ (Has(r, "lost") /\ reqs[r].tr = "ws") => wsock[reqs[r].w] = "closed"
           /\ (Has(r, "lost") /\ reqs[r].tr = "sse") => ~conns[reqs[r].ch].open

\* C18 witness: on one socket a request that needs no backend call arrived
\* after a tools/call and was answered before it.
C18_Witness ==
    \E w \in Sock :
        /\ MessageRids(wframes[w]) = <<2, 1>>
        /\ finished = <<2, 1>>
        /\ IsToolCall(1) /\ ~IsToolCall(2)
        /\ reqs[1].w = w /\ reqs[2].w = w

\* C19: while a stream is open its keep-alive timer runs, so keep-alive
\* frames keep being written to it; once the stream has emitted close the
\* timer is cleared and no keep-alive frame is written to it again. This
\* holds for every stream, a displaced one included.
C19_KeepAliveWhileOpen ==
    \A c \in Conn : conns[c].keepAlive <=> conns[c].open

\* C20: when a socket has closed before the response to one of its requests
\* in flight is ready, the backend call still runs to its end, nothing is
\* written to that socket or any other connection, nothing is retried or
\* kept for later, and no exception escapes.
C20_ClosedSocketSwallows ==
    [][\A r \in Req :
          /\ (reqs[r].tr = "ws" /\ reqs[r].pc = "fetch" /\ wsock[reqs[r].w] = "open"
                  /\ wsock'[reqs[r].w] = "closed") => reqs'[r] = reqs[r]
          /\ (reqs[r].tr = "ws" /\ reqs[r].pc = "fetch" /\ wsock[reqs[r].w] = "closed"
                  /\ reqs'[r] # reqs[r]) =>
                 /\ reqs'[r].pc = "done"
                 /\ reqs'[r].trace = <<"engine", "fetch", "fetched", "lost">>
                 /\ Len(reqs'[r].sent) = 1
                 /\ UNCHANGED <<wframes, sframes, fetches, unhandled, terminated>>
          /\ (reqs[r].tr = "ws" /\ Has(r, "lost")) =>
                 (reqs'[r] = reqs[r] /\ FramesFor(r) = {} /\ FramesFor(r)' = {})]_vars

\* C20 witness: the socket of a tools/call closed while its backend call
\* was under way, the call ended successfully, and another socket is open.
C20_Witness ==
    \E r \in Req :
        /\ reqs[r].tr = "ws" /\ Has(r, "lost")
        /\ reqs[r].reply = Reply(200, SnippetsText)
        /\ \E v \in Sock : v # reqs[r].w /\ wsock[v] = "open"

\* r is a decoded message with this method whose handler has run
Handled(r, method) ==
    /\ reqs[r].msg.json = "obj"
    /\ reqs[r].msg.method = method
    /\ Has(r, "engine")

\* C21: every initialize message, first, repeated or after other methods,
\* yields a Result, never a Fault, with the request's id, whose capabilities
\* declare tool support, together with the protocol version and the server
\* identity.
C21_InitializeDeclaresTools ==
    \A r \in Req :
        Handled(r, "initialize") =>
            /\ Len(reqs[r].sent) = 1
            /\ reqs[r].sent[1].outcome = "result"
            /\ reqs[r].sent[1].id = reqs[r].msg.id
            /\ "tools" \in reqs[r].sent[1].init.capabilities
            /\ reqs[r].sent[1].init.protocolVersion = "2024-05-14"
            /\ reqs[r].sent[1].init.serverInfo = <<[name |-> "akasha-mcp", version |-> "0.1.0"]>>

\* C22: tools/list and each of its aliases (listTools, getTools, get_tools,
\* list_tools) return a list of exactly one descriptor, named qdrant_search,
\* and the list is the same on every call and under every alias.
C22_OneToolUnderEveryAlias ==
    /\ \A r \in Req :
           (\E m \in toolsListAliases : Handled(r, m)) =>
               /\ Len(reqs[r].sent) = 1
               /\ reqs[r].sent[1].outcome = "result"
               /\ Len(reqs[r].sent[1].tools) = 1
               /\ reqs[r].sent[1].tools[1].name = "qdrant_search"
    /\ \A r, q \in Req :
           (/\ \E m \in toolsListAliases : Handled(r, m)
            /\ \E m \in toolsListAliases : Handled(q, m)) =>
               reqs[r].sent[1].tools = reqs[q].sent[1].tools

\* the names the engine is said to handle
HandledNames ==
    {"initialize", "notifications/initialized", "ping", "resources/list", "prompts/list",
     "tools/call"} \cup toolsListAliases

\* r is a decoded message whose method is none of the handled names
OtherMethod(r) == \E m \in Methods \ HandledNames : Handled(r, m)

\* C23: a message whose method is none of the handled names yields a Fault
\* with the method-not-found code and the request's id; handling it makes no
\* backend call and changes nothing but the record of that request and the
\* frames written for it.
C23_UnknownMethodFaults ==
    [][\A r \in Req :
          (~OtherMethod(r) /\ OtherMethod(r)') =>
              /\ reqs'[r].pc = "done"
              /\ reqs'[r].sent = <<Fault(reqs'[r].msg.id, -32601, "Method not found")>>
              /\ ~Has(r, "fetch")'
              /\ fetches' = fetches
              /\ clients' = clients /\ conns' = conns /\ wsock' = wsock
              /\ unhandled' = unhandled /\ terminated' = terminated
              /\ \A q \in Req \ {r} : reqs'[q] = reqs[q]
              /\ \A c \in Conn : sframes'[c] # sframes[c] =>
                     sframes'[c] = Append(sframes[c], MessageFrame(r, reqs'[r].sent[1]))
              /\ \A w \in Sock : wframes'[w] # wframes[w] =>
                     wframes'[w] = Append(wframes[w], MessageFrame(r, reqs'[r].sent[1]))]_vars

C23_Witness ==
    \E r \in Req :
        /\ OtherMethod(r)
        /\ reqs[r].sent = <<Fault("1", -32601, "Method not found")>>
        /\ FramesFor(r) # {}

\* C24: a GET /sse without a session id ends in a client error and leaves
\* no session, no keep-alive timer and no open event; a GET with an id emits
\* the open event as the first frame of the stream, so that a stream the
\* directory names already carries it, and no message or keep-alive frame
\* stands before it on any stream.
C24_OpenComesFirst ==
    /\ \A c \in 1..nconn :
           /\ conns[c].cid = NoCid <=> conns[c].status = 400
           /\ conns[c].cid # NoCid <=> conns[c].status = 200
           /\ conns[c].status = 400 =>
                  /\ sframes[c] = <<>>
                  /\ ~conns[c].open /\ ~conns[c].keepAlive
                  /\ \A x \in Cids : clients[x] # c
           /\ conns[c].status = 200 =>
                  /\ sframes[c] # <<>>
                  /\ Head(sframes[c]) = OpenFrame
                  /\ \A i \in 2..Len(sframes[c]) : sframes[c][i] # OpenFrame
    /\ \A x \in Cids : clients[x] # 0 =>
           /\ conns[clients[x]].status = 200
           /\ sframes[clients[x]] # <<>> /\ Head(sframes[clients[x]]) = OpenFrame
    /\ \A c \in Conn : c > nconn => sframes[c] = <<>> /\ conns[c] = NoConn

\* one GET was turned away, another opened a stream that has carried a
\* message event after its open event
C24_Witness ==
    \E c, d \in 1..nconn :
        /\ conns[c].status = 400
        /\ conns[d].status = 200
        /\ Len(sframes[d]) >= 2
        /\ sframes[d][2].ev = "message"

\* C25: for every decoded message that has a method, the engine invokes
\* the delivery sink exactly once, on every branch: once handling has ended,
\* one response, never none and never two, has been handed to the sink.
C25_SinkInvokedOnce ==
    \A r \in Req :
        (/\ reqs[r].pc = "done"
         /\ reqs[r].msg.json = "obj"
         /\ reqs[r].msg.method # NoMethod
         /\ Has(r, "engine")) => Len(reqs[r].sent) = 1

\* the responses written for r, on whatever connection
Delivered(r) == {f.resp : f \in FramesFor(r)}

StreamOpens == nconn' = nconn + 1 /\ conns'[nconn'].status = 200
\* stream c closes in this step
StreamCloses(c) == conns[c].open /\ ~conns'[c].open

\* C27: the directory of sessions is changed only by a stream opening, which
\* sets the entry of the opened id, and by a stream closing, which deletes
\* the entry of its id; a POST, the engine, a backend completion, a
\* delivery, a keep-alive tick and every WebSocket event leave it as it is.
C27_DirectoryChangesOnlyOnOpenAndClose ==
    [][/\ clients' # clients =>
             \/ /\ StreamOpens
                /\ clients' = [clients EXCEPT ![conns'[nconn'].cid] = nconn']
             \/ \E c \in Conn :
                    /\ StreamCloses(c)
                    /\ clients' = [clients EXCEPT ![conns[c].cid] = 0]
       /\ (\/ reqs' # reqs \/ nreq' # nreq \/ fetches' # fetches \/ finished' # finished
           \/ wsock' # wsock \/ wframes' # wframes
           \/ unhandled' # unhandled \/ terminated' # terminated
           \/ (conns' = conns /\ sframes' # sframes)) => clients' = clients]_vars

\* a session was registered and deleted again, and meanwhile a POST was
\* answered on its stream, a socket was opened and a backend call completed
C27_Witness ==
    /\ \E c \in 1..nconn :
           /\ conns[c].status = 200 /\ ~conns[c].open
           /\ clients[conns[c].cid] = 0
           /\ \E r \in Req : reqs[r].tr = "sse" /\ StreamFramesFor(c, r) # {}
    /\ \E w \in Sock : wsock[w] # "none"
    /\ \E r \in Req : Completed(r)

\* C28: the response to a POST is written to the stream that was registered
\* under the session id when the POST arrived (field at), also when the id
\* was registered anew before the response was delivered.
C28_WrittenToStreamOfArrival ==
    \A r \in Req :
        reqs[r].tr = "sse" =>
            /\ \A c \in Conn : StreamFramesFor(c, r) # {} => c = reqs[r].at
            /\ Has(r, "engine") => reqs[r].ch = reqs[r].at

====
